---- MODULE Spec2Model ----
(***************************************************************************)
(* The coffee-shop drink API (projects/03_coffee_shop_full_stack, api.py)  *)
(* and the paginated question listing of the trivia API (projects/02).     *)
(*                                                                         *)
(* The drink store is a table id -> (title, recipe text).  Every request   *)
(* is one action; the request and the response it produced are kept in     *)
(* `last` so that properties can relate them.                              *)
(***************************************************************************)
EXTENDS Integers, Sequences, FiniteSets, TLC

VARIABLES store, last, live, pending, questions, tlast

vars == <<store, last, live, pending, questions, tlast>>

---------------------------------------------------------------------------
(* Bounds of the model *)

\* largest drink id the store hands out
MaxId == 2

\* largest question id the trivia store hands out
MaxQuestions == 12

DrinkIds == 1..MaxId

Clients == {"c1", "c2"}

---------------------------------------------------------------------------
(* JSON values.  One record shape for null, strings and lists so that any  *)
(* two values can be compared.                                             *)

JNull == [t |-> "null", s |-> "", l |-> <<>>]

JStr(x) == [t |-> "str", s |-> x, l |-> <<>>]

JList(x) == [t |-> "list", s |-> "", l |-> x]

\* Python truthiness of a JSON value: None, "" and [] are falsy
Truthy(v) == (v.t = "str" /\ v.s # "") \/ (v.t = "list" /\ v.l # <<>>)

Espresso == [color |-> "brown", name |-> "espresso", parts |-> 1]

Milk == [color |-> "white", name |-> "milk", parts |-> 2]

Digits == <<"1", "2", "3">>

\* json.dumps of one recipe ingredient, as a sequence of text tokens
DumpIngredient(i) ==
    <<"{", "color", ":", i.color, ",", "name", ":", i.name, ",",
      "parts", ":", Digits[i.parts], "}">>

RECURSIVE DumpItems(_)
DumpItems(l) ==
    IF l = <<>> THEN <<>>
    ELSE IF Len(l) = 1 THEN DumpIngredient(Head(l))
    ELSE DumpIngredient(Head(l)) \o <<",">> \o DumpItems(Tail(l))

json_dumps_first_item_only(v) ==
    IF v.t = "null" THEN <<"null">>
    ELSE IF v.t = "str" THEN <<"str", v.s>>
    ELSE <<"[">> \o DumpItems(SubSeq(v.l, 1, IF Len(v.l) < 1 THEN Len(v.l) ELSE 1)) \o <<"]">>

\* json.dumps(value): the text persisted in the recipe column
json_dumps(v) ==
    IF v.t = "null" THEN <<"null">>
    ELSE IF v.t = "str" THEN <<"str", v.s>>
    ELSE <<"[">> \o DumpItems(v.l) \o <<"]">>

ParseDigit(tok) == CHOOSE n \in 1..Len(Digits) : Digits[n] = tok

IngredientLen == Len(DumpIngredient(Espresso))

\* parse one ingredient object from the first IngredientLen tokens
ParseIngredient(txt) ==
    [color |-> txt[4], name |-> txt[8], parts |-> ParseDigit(txt[12])]

RECURSIVE ParseItems(_)
ParseItems(txt) ==
    IF Head(txt) = "]" THEN <<>>
    ELSE IF Head(txt) = "," THEN ParseItems(Tail(txt))
    ELSE <<ParseIngredient(txt)>>
         \o ParseItems(SubSeq(txt, IngredientLen + 1, Len(txt)))

\* json.loads(text), applied by the read projections
json_loads(txt) ==
    IF txt = <<"null">> THEN JNull
    ELSE IF Head(txt) = "str" THEN JStr(txt[2])
    ELSE JList(ParseItems(Tail(txt)))

---------------------------------------------------------------------------
(* Requests *)

Permissions == {"get:drinks-detail", "post:drinks", "patch:drinks", "delete:drinks"}

\* An Authorization header as the gate sees it: whether it is present and of
\* the form "Bearer <token>", how verification of the token ends, and the
\* permissions claim of its payload.
Header(kind, verify, claim, perms) ==
    [kind |-> kind, verify |-> verify, claim |-> claim, perms |-> perms]

NoHeader == Header("absent", "none", FALSE, {})

MalformedHeader == Header("malformed", "none", FALSE, {})

Token(verify, claim, perms) == Header("bearer", verify, claim, perms)

Manager == Token("ok", TRUE, Permissions)

PermissionSets == {{}, Permissions} \cup {{p} : p \in Permissions}

AllHeaders ==
    {NoHeader, MalformedHeader}
    \cup {Token(v, TRUE, Permissions) : v \in {"no_key", "expired", "bad_claims", "bad_decode"}}
    \cup {Token("ok", FALSE, {})}
    \cup {Token("ok", TRUE, ps) : ps \in PermissionSets}

\* A request body: whether it is JSON at all and which keys it carries.
Body(hasTitle, title, hasRecipe, recipe) ==
    [json |-> TRUE, hasTitle |-> hasTitle, title |-> title,
     hasRecipe |-> hasRecipe, recipe |-> recipe]

NoJson ==
    [json |-> FALSE, hasTitle |-> FALSE, title |-> JNull,
     hasRecipe |-> FALSE, recipe |-> JNull]

\* body.get(key, None)
BodyTitle(b) == IF b.hasTitle THEN b.title ELSE JNull

BodyRecipe(b) == IF b.hasRecipe THEN b.recipe ELSE JNull

PostBodies ==
    {NoJson,
     Body(TRUE, JStr("mocha"), TRUE, JList(<<Espresso>>)),
     Body(TRUE, JStr("latte"), TRUE, JList(<<Espresso, Milk>>)),
     Body(TRUE, JStr("mocha"), FALSE, JNull),
     Body(FALSE, JNull, TRUE, JList(<<Espresso>>))}

PatchBodies ==
    {NoJson}
    \cup {Body(ht, t, hr, r) :
            ht \in {TRUE}, t \in {JStr(""), JStr("latte")},
            hr \in {TRUE}, r \in {JList(<<>>), JList(<<Espresso, Milk>>)}}
    \cup {Body(FALSE, JNull, TRUE, r) : r \in {JList(<<>>), JList(<<Espresso, Milk>>)}}
    \cup {Body(TRUE, t, FALSE, JNull) : t \in {JStr(""), JStr("latte")}}
    \cup {Body(FALSE, JNull, FALSE, JNull)}

---------------------------------------------------------------------------
(* Responses *)

Response(status, json, success, error, message, shape, drinks, delete) ==
    [status |-> status, json |-> json, success |-> success, error |-> error,
     message |-> message, shape |-> shape, drinks |-> drinks, delete |-> delete]

\* jsonify({'success': True, ...}) with the implicit status 200
Ok(shape, drinks, delete) ==
    Response(200, TRUE, TRUE, 0, "", shape, drinks, delete)

ErrorEnvelope(status, error, message) ==
    Response(status, TRUE, FALSE, error, message, "none", <<>>, 0)

unprocessable == ErrorEnvelope(422, 422, "unprocessable")

resource_not_found == ErrorEnvelope(404, 404, "resource not found")

internal_server_error == ErrorEnvelope(500, 500, " A generic error occurred on the server")

bad_request == ErrorEnvelope(400, 400, "bad request")

handle_auth_error_fixed_code(ex) == ErrorEnvelope(ex.status_code, 401, ex.error)

handle_auth_error(ex) == ErrorEnvelope(ex.status_code, ex.status_code, ex.error)

\* the framework's own page for an HTTP error no handler is registered for
DefaultErrorPage(code) == Response(code, FALSE, FALSE, 0, "", "none", <<>>, 0)

\* abort(code): the handler registered for the code answers, if there is one
Abort(code) ==
    CASE code = 422 -> unprocessable
      [] code = 404 -> resource_not_found
      [] code = 500 -> internal_server_error
      [] code = 400 -> bad_request
      [] OTHER -> DefaultErrorPage(code)

---------------------------------------------------------------------------
(* Authorization gate *)

AuthError(error, status_code) ==
    [ok |-> FALSE, error |-> error, status_code |-> status_code]

Granted == [ok |-> TRUE, error |-> "", status_code |-> 200]

\* step 1: the bearer token of the Authorization header
ExtractToken(h) ==
    IF h.kind # "bearer" THEN AuthError("invalid_header", 401) ELSE Granted

\* step 2: decoding and verifying the token
VerifyToken(h) ==
    CASE h.verify = "no_key" -> AuthError("invalid_header", 401)
      [] h.verify = "expired" -> AuthError("token_expired", 401)
      [] h.verify = "bad_claims" -> AuthError("invalid_claims", 401)
      [] h.verify = "bad_decode" -> AuthError("invalid_header", 401)
      [] OTHER -> Granted

\* steps 3 and 4: the permissions claim and the required permission
CheckPermissions(permission, h) ==
    IF ~h.claim THEN AuthError("invalid_claims", 400)
    ELSE IF permission \notin h.perms THEN AuthError("unauthorized", 403)
    ELSE Granted

\* requires_auth(permission): the first failing step decides
requires_auth(permission, h) ==
    IF ~ExtractToken(h).ok THEN ExtractToken(h)
    ELSE IF ~VerifyToken(h).ok THEN VerifyToken(h)
    ELSE CheckPermissions(permission, h)

RequiredPermissionPatchAsPost(op) ==
    CASE op = "GET /drinks-detail" -> "get:drinks-detail"
      [] op = "POST /drinks" -> "post:drinks"
      [] op = "PATCH /drinks/<id>" -> "post:drinks"
      [] op = "DELETE /drinks/<id>" -> "delete:drinks"

\* the permission each protected route is decorated with
RequiredPermission(op) ==
    CASE op = "GET /drinks-detail" -> "get:drinks-detail"
      [] op = "POST /drinks" -> "post:drinks"
      [] op = "PATCH /drinks/<id>" -> "patch:drinks"
      [] op = "DELETE /drinks/<id>" -> "delete:drinks"

---------------------------------------------------------------------------
(* Drink store *)

Drink(title, recipe) == [title |-> title, recipe |-> recipe]

EmptyStore == [i \in {} |-> Drink(JNull, <<"null">>)]

Max(S) == CHOOSE m \in S : \A x \in S : x <= m

Min(S) == CHOOSE m \in S : \A x \in S : m <= x

\* ids the store may generate for a new row: unused and above every stored id
NewIds(s) == {n \in DrinkIds : \A i \in DOMAIN s : i < n}

\* drink.insert()
Insert(s, id, d) == [i \in DOMAIN s \cup {id} |-> IF i = id THEN d ELSE s[i]]

\* drink.update()
Update(s, id, d) == [s EXCEPT ![id] = d]

\* drink.delete()
Delete(s, id) == [i \in DOMAIN s \ {id} |-> s[i]]

RECURSIVE Ascending(_)
Ascending(S) ==
    IF S = {} THEN <<>>
    ELSE LET m == Min(S) IN <<m>> \o Ascending(S \ {m})

\* Drink.query.order_by(Drink.id).all(), as ids
OrderById(s) == Ascending(DOMAIN s)

\* drink.long(): every field, the recipe parsed from its text
Long(s, id) ==
    [id |-> id, title |-> s[id].title, recipe |-> json_loads(s[id].recipe)]

ShortIngredient(i) == [color |-> i.color, name |-> i.name]

\* drink.short(): the recipe without quantities
Short(s, id) ==
    LET r == json_loads(s[id].recipe) IN
    [id |-> id, title |-> s[id].title,
     recipe |-> IF r.t = "list"
                THEN JList([k \in 1..Len(r.l) |-> ShortIngredient(r.l[k])])
                ELSE r]

---------------------------------------------------------------------------
(* Handlers.  `last` keeps the request (route, header, id, body), whether   *)
(* the handler body ran, the id of the row the request inserted (0: none)  *)
(* and the response.                                                       *)

Last(op, hdr, id, body, ran, own, resp) ==
    [op |-> op, hdr |-> hdr, id |-> id, body |-> body, ran |-> ran,
     own |-> own, resp |-> resp]

NoRequest == Last("none", NoHeader, 0, NoJson, FALSE, 0, Ok("none", <<>>, 0))

\* the gate raised: the AuthError handler answers and the handler never runs
Rejected(op, h, id, b, g) ==
    /\ last' = Last(op, h, id, b, FALSE, 0, handle_auth_error(g))
    /\ UNCHANGED <<store, live>>

GetDrinksUnordered(s) ==
    LET ids == OrderById(s)
        drinks == [k \in 1..Len(ids) |-> Short(s, ids[Len(ids) + 1 - k])]
    IN  IF Len(drinks) = 0 THEN Abort(404) ELSE Ok("array", drinks, 0)

\* body of get_drinks
GetDrinks(s) ==
    LET ids == OrderById(s)
        drinks == [k \in 1..Len(ids) |-> Short(s, ids[k])]
    IN  IF Len(drinks) = 0 THEN Abort(404) ELSE Ok("array", drinks, 0)

\* body of get_drinks_detail
GetDrinksDetail(s) ==
    LET ids == OrderById(s)
        drinks == [k \in 1..Len(ids) |-> Long(s, ids[k])]
    IN  IF Len(drinks) = 0 THEN Abort(404) ELSE Ok("array", drinks, 0)

\* Drink(title=new_title, recipe=json.dumps(new_recipe))
NewDrink(b) == Drink(BodyTitle(b), json_dumps(BodyRecipe(b)))

\* add_drink after the insert: the latest drink by id is read back; with no
\* row left the read yields None and None.long() raises into abort(422)
AddDrinkResponse(s) ==
    IF DOMAIN s = {} THEN Abort(422)
    ELSE Ok("object", <<Long(s, Max(DOMAIN s))>>, 0)

\* update_drink: a field is assigned when its value in the body is truthy
UpdatedDrink(d, b) ==
    Drink(IF Truthy(BodyTitle(b)) THEN BodyTitle(b) ELSE d.title,
          IF Truthy(BodyRecipe(b)) THEN json_dumps(BodyRecipe(b)) ELSE d.recipe)

\* GET /drinks: public
get_drinks(H) ==
    \E h \in H :
        /\ last' = Last("GET /drinks", h, 0, NoJson, TRUE, 0, GetDrinks(store))
        /\ UNCHANGED <<store, live, pending, questions, tlast>>

\* GET /drinks-detail
get_drinks_detail(H) ==
    \E h \in H :
        LET op == "GET /drinks-detail"
            g == requires_auth(RequiredPermission(op), h)
        IN  /\ IF ~g.ok THEN Rejected(op, h, 0, NoJson, g)
               ELSE /\ last' = Last(op, h, 0, NoJson, TRUE, 0, GetDrinksDetail(store))
                    /\ UNCHANGED <<store, live>>
            /\ UNCHANGED <<pending, questions, tlast>>

\* POST /drinks, the whole handler in one step
add_drink(H, B) ==
    \E h \in H, b \in B :
        LET op == "POST /drinks"
            g == requires_auth(RequiredPermission(op), h)
        IN  /\ IF ~g.ok THEN Rejected(op, h, 0, b, g)
               ELSE IF ~b.json
               THEN \* body is None: body.get raises, except: abort(422)
                    /\ last' = Last(op, h, 0, b, TRUE, 0, Abort(422))
                    /\ UNCHANGED <<store, live>>
               ELSE \E id \in NewIds(store) :
                    /\ store' = Insert(store, id, NewDrink(b))
                    /\ live' = live \cup {id}
                    /\ last' = Last(op, h, 0, b, TRUE, id, AddDrinkResponse(store'))
            /\ UNCHANGED <<pending, questions, tlast>>

\* PATCH /drinks/<id>
update_drink(H, B) ==
    \E h \in H, b \in B, id \in DrinkIds :
        LET op == "PATCH /drinks/<id>"
            g == requires_auth(RequiredPermission(op), h)
        IN  /\ IF ~g.ok THEN Rejected(op, h, id, b, g)
               ELSE IF ~b.json \/ id \notin DOMAIN store
               THEN \* body.get on None raises, and abort(404) raises inside
                    \* the try: the bare except turns either into abort(400)
                    /\ last' = Last(op, h, id, b, TRUE, 0, Abort(400))
                    /\ UNCHANGED <<store, live>>
               ELSE /\ store' = Update(store, id, UpdatedDrink(store[id], b))
                    /\ last' = Last(op, h, id, b, TRUE, 0,
                                    Ok("array", <<Long(store', id)>>, 0))
                    /\ UNCHANGED live
            /\ UNCHANGED <<pending, questions, tlast>>

\* DELETE /drinks/<id>
delete_drink(H) ==
    \E h \in H, id \in DrinkIds :
        LET op == "DELETE /drinks/<id>"
            g == requires_auth(RequiredPermission(op), h)
        IN  /\ IF ~g.ok THEN Rejected(op, h, id, NoJson, g)
               ELSE IF id \notin DOMAIN store
               THEN \* abort(404) raises inside the try: except: abort(400)
                    /\ last' = Last(op, h, id, NoJson, TRUE, 0, Abort(400))
                    /\ UNCHANGED <<store, live>>
               ELSE /\ store' = Delete(store, id)
                    /\ live' = live \ {id}
                    /\ last' = Last(op, h, id, NoJson, TRUE, 0, Ok("none", <<>>, id))
            /\ UNCHANGED <<pending, questions, tlast>>

\* method + path pairs whose path is routed but not for that method
UnroutedMethods == {"PUT /drinks", "POST /drinks-detail", "GET /drinks/<id>"}

\* the dispatcher answers 405 before any view function or gate runs
method_not_allowed(H) ==
    \E h \in H, op \in UnroutedMethods :
        /\ last' = Last(op, h, 0, NoJson, FALSE, 0, Abort(405))
        /\ UNCHANGED <<store, live, pending, questions, tlast>>

\* a client with no POST /drinks in flight
Idle == [id |-> 0, hdr |-> NoHeader, body |-> NoJson]

\* POST /drinks up to the commit of drink.insert(); the row is visible to
\* every other request from here on
AddDrinkInsert(c, H, B) ==
    \E h \in H, b \in B :
        LET op == "POST /drinks"
            g == requires_auth(RequiredPermission(op), h)
        IN  /\ pending[c] = Idle
            /\ IF ~g.ok THEN Rejected(op, h, 0, b, g) /\ UNCHANGED pending
               ELSE IF ~b.json
               THEN /\ last' = Last(op, h, 0, b, TRUE, 0, Abort(422))
                    /\ UNCHANGED <<store, live, pending>>
               ELSE \E id \in NewIds(store) :
                    /\ store' = Insert(store, id, NewDrink(b))
                    /\ live' = live \cup {id}
                    /\ pending' = [pending EXCEPT ![c] = [id |-> id, hdr |-> h, body |-> b]]
                    /\ UNCHANGED last
            /\ UNCHANGED <<questions, tlast>>

\* POST /drinks from the read of the latest drink by id to the response
AddDrinkRespond(c) ==
    /\ pending[c] # Idle
    /\ last' = Last("POST /drinks", pending[c].hdr, 0, pending[c].body, TRUE,
                    pending[c].id, AddDrinkResponse(store))
    /\ pending' = [pending EXCEPT ![c] = Idle]
    /\ UNCHANGED <<store, live, questions, tlast>>

---------------------------------------------------------------------------
(* Trivia API: the paginated question listing *)

PageSize == 10

QuestionIds == 1..MaxQuestions

Pages == 1..3

TResponse(op, page, status, message, qs, total) ==
    [op |-> op, page |-> page, status |-> status, message |-> message,
     questions |-> qs, total |-> total]

NoTRequest == TResponse("none", 0, 200, "", <<>>, 0)

Slice(all, start, end) ==
    SubSeq(all, start + 1, IF end < Len(all) THEN end ELSE Len(all))

PaginateFromPage(page, all) ==
    LET start == page * PageSize
        end == start + PageSize
    IN  Slice(all, start, end)

\* the pagination window: questions[start:end] of the full list
Paginate(page, all) ==
    LET start == (page - 1) * PageSize
        end == start + PageSize
    IN  Slice(all, start, end)

\* GET /questions?page=p
get_questions ==
    \E p \in Pages :
        LET all == Ascending(questions)
            current == Paginate(p, all)
        IN  /\ tlast' = IF Len(current) = 0
                        THEN TResponse("GET /questions", p, 404, "resource not found", <<>>, 0)
                        ELSE TResponse("GET /questions", p, 200, "", current, Len(all))
            /\ UNCHANGED <<questions, store, last, live, pending>>

\* POST /questions
create_question ==
    \E id \in {n \in QuestionIds : \A q \in questions : q < n} :
        /\ questions' = questions \cup {id}
        /\ tlast' = TResponse("POST /questions", 0, 200, "", <<>>, 0)
        /\ UNCHANGED <<store, last, live, pending>>

\* DELETE /questions/<id>
delete_question ==
    \E id \in QuestionIds :
        /\ IF id \in questions
           THEN /\ questions' = questions \ {id}
                /\ tlast' = TResponse("DELETE /questions/<id>", 0, 200, "", <<>>, 0)
           ELSE /\ tlast' = TResponse("DELETE /questions/<id>", 0, 400, "bad request", <<>>, 0)
                /\ UNCHANGED questions
        /\ UNCHANGED <<store, last, live, pending>>

---------------------------------------------------------------------------
(* The drink API, one request at a time, every request authorized as the   *)
(* manager role; GET /drinks also without a header.                        *)

Init ==
    /\ store = EmptyStore
    /\ last = NoRequest
    /\ live = {}
    /\ pending = [c \in Clients |-> Idle]
    /\ questions = {}
    /\ tlast = NoTRequest

Next ==
    \/ get_drinks({NoHeader, Manager})
    \/ get_drinks_detail({Manager})
    \/ add_drink({Manager}, PostBodies)
    \/ update_drink({Manager}, PatchBodies)
    \/ delete_drink({Manager})
    \/ method_not_allowed({Manager})

Spec == Init /\ [][Next]_vars

(* The drink API under every kind of Authorization header. *)

AuthBodies == {NoJson, Body(TRUE, JStr("mocha"), TRUE, JList(<<Espresso>>))}

NextAuth ==
    \/ get_drinks(AllHeaders)
    \/ get_drinks_detail(AllHeaders)
    \/ add_drink(AllHeaders, AuthBodies)
    \/ update_drink(AllHeaders, AuthBodies)
    \/ delete_drink(AllHeaders)
    \/ method_not_allowed(AllHeaders)

SpecAuth == Init /\ [][NextAuth]_vars

(* The drink API with requests of several clients in flight: POST /drinks  *)
(* commits its insert and reads the latest drink back in a later step.     *)

ConcPostBodies ==
    {Body(TRUE, JStr("mocha"), TRUE, JList(<<Espresso>>)),
     Body(TRUE, JStr("latte"), TRUE, JList(<<Espresso, Milk>>))}

ConcPatchBodies == {Body(TRUE, JStr("latte"), FALSE, JNull)}

NextConc ==
    \/ \E c \in Clients : AddDrinkInsert(c, {Manager}, ConcPostBodies)
    \/ \E c \in Clients : AddDrinkRespond(c)
    \/ update_drink({Manager}, ConcPatchBodies)
    \/ delete_drink({Manager})
    \/ get_drinks_detail({Manager})

SpecConc == Init /\ [][NextConc]_vars

(* The trivia API's question listing. *)

NextTrivia ==
    \/ create_question
    \/ delete_question
    \/ get_questions

SpecTrivia == Init /\ [][NextTrivia]_vars

---------------------------------------------------------------------------
(* Properties *)

GatedOps ==
    {"GET /drinks-detail", "POST /drinks", "PATCH /drinks/<id>", "DELETE /drinks/<id>"}

\* the permission the API documents for each protected route
DocumentedPermission(op) ==
    CASE op = "GET /drinks-detail" -> "get:drinks-detail"
      [] op = "POST /drinks" -> "post:drinks"
      [] op = "PATCH /drinks/<id>" -> "patch:drinks"
      [] op = "DELETE /drinks/<id>" -> "delete:drinks"

\* the permission set of the decoded token; empty when nothing was decoded
DecodedPermissions(h) ==
    IF h.kind = "bearer" /\ h.verify = "ok" /\ h.claim THEN h.perms ELSE {}

Authorized(r) ==
    r.op \in GatedOps /\ DocumentedPermission(r.op) \in DecodedPermissions(r.hdr)

\* C1: a request to a permission-gated route whose decoded token lacks the
\* route's permission never runs the handler body: the store is left as it
\* was and the response carries no drink data.
C1_GateBeforeHandler ==
    [][ (last'.op \in GatedOps /\ ~Authorized(last'))
            => /\ ~last'.ran
               /\ store' = store
               /\ last'.resp.drinks = <<>>
               /\ last'.resp.delete = 0
               /\ ~last'.resp.success ]_vars

C1_Witness ==
    /\ last.op = "DELETE /drinks/<id>"
    /\ last.hdr = Token("ok", TRUE, {"patch:drinks"})
    /\ last.id \in DOMAIN store
    /\ ~last.ran

\* C2: the first failing step of the gate fixes the response: no header gives
\* 401 invalid_header, a verified token without a permissions claim gives 400
\* invalid_claims, a verified token lacking the permission gives 403
\* unauthorized; the AuthError response has success false and carries its
\* status code in the 'error' field as well.
C2_GateOutcome ==
    last.op \in GatedOps =>
        LET h == last.hdr
            r == last.resp
        IN  /\ h.kind = "absent"
                => r.status = 401 /\ r.message = "invalid_header"
            /\ (h.kind = "bearer" /\ h.verify = "ok" /\ ~h.claim)
                => r.status = 400 /\ r.message = "invalid_claims"
            /\ (h.kind = "bearer" /\ h.verify = "ok" /\ h.claim
                    /\ DocumentedPermission(last.op) \notin h.perms)
                => r.status = 403 /\ r.message = "unauthorized"
            /\ ~Authorized(last)
                => r.json /\ ~r.success /\ r.error = r.status
                   /\ r.status \in {400, 401, 403}

C2_Witness ==
    /\ last.op = "POST /drinks"
    /\ last.hdr = Token("ok", TRUE, {"get:drinks-detail"})
    /\ last.body.json
    /\ last.resp.status = 403
    /\ DOMAIN store # {}

\* C3: an authorized DELETE, or PATCH with a JSON body, of an id that names
\* no stored drink is answered 404 and leaves the store unchanged.
C3_AbsentIdIs404 ==
    [][ (last'.op \in {"DELETE /drinks/<id>", "PATCH /drinks/<id>"}
            /\ (last'.op = "PATCH /drinks/<id>" => last'.body.json)
            /\ Authorized(last') /\ last'.id \notin DOMAIN store)
            => last'.resp.status = 404 /\ store' = store ]_vars

\* C4: an authorized PATCH of a stored drink overwrites exactly the fields
\* present in the body, whatever their value, keeps the absent ones and every
\* other drink, and responds with the long projection of the updated drink.
C4_PatchOverwritesPresentFields ==
    [][ (last'.op = "PATCH /drinks/<id>" /\ Authorized(last')
            /\ last'.body.json /\ last'.id \in DOMAIN store)
            => LET id == last'.id
                   b == last'.body
               IN  /\ DOMAIN store' = DOMAIN store
                   /\ \A j \in DOMAIN store \ {id} : store'[j] = store[j]
                   /\ IF b.hasTitle THEN store'[id].title = b.title
                      ELSE store'[id].title = store[id].title
                   /\ IF b.hasRecipe THEN json_loads(store'[id].recipe) = b.recipe
                      ELSE store'[id].recipe = store[id].recipe
                   /\ last'.resp.status = 200
                   /\ last'.resp.drinks = <<Long(store', id)>> ]_vars

\* C5: a successful POST /drinks responds with the drink this request
\* inserted, whatever other requests run between its insert and its read.
C5_PostReturnsOwnDrink ==
    (last.op = "POST /drinks" /\ last.resp.status = 200)
        => /\ Len(last.resp.drinks) = 1
           /\ last.resp.drinks[1].id = last.own

\* the entries of a list of drink projections whose id is in S
EntriesOf(ds, S) == SelectSeq(ds, LAMBDA d : d.id \in S)

\* C6: a drink created by POST /drinks with title t and recipe list r is
\* listed by GET /drinks-detail under its generated id with title t and
\* recipe r, and the entry of a drink stays as it is across every request
\* that is not a successful update or delete of that drink.
C6_RoundTrip ==
    [][ LET touched ==
                IF last'.op \in {"PATCH /drinks/<id>", "DELETE /drinks/<id>"}
                    /\ last'.resp.status = 200
                THEN {last'.id} ELSE {}
            kept == DOMAIN store \ touched
        IN  /\ (last'.op = "POST /drinks" /\ last'.resp.status = 200
                    /\ last'.body.hasTitle /\ last'.body.hasRecipe
                    /\ last'.body.recipe.t = "list")
                => EntriesOf(GetDrinksDetail(store').drinks, {last'.own})
                     = <<[id |-> last'.own, title |-> last'.body.title,
                          recipe |-> last'.body.recipe]>>
            /\ kept # {}
                => LET after == EntriesOf(GetDrinksDetail(store').drinks, kept)
                   IN  /\ after = EntriesOf(GetDrinksDetail(store).drinks, kept)
                       /\ Len(after) = Cardinality(kept) ]_vars

C6_Witness ==
    /\ last.op = "POST /drinks"
    /\ last.resp.status = 200
    /\ last.body.recipe = JList(<<Espresso, Milk>>)
    /\ last.own = 2
    /\ 1 \in DOMAIN store
    /\ EntriesOf(GetDrinksDetail(store).drinks, {2})
            = <<[id |-> 2, title |-> JStr("latte"), recipe |-> JList(<<Espresso, Milk>>)]>>

\* C7: every failing request is answered with the JSON envelope
\* {success: false, error: <code>, message} whose 'error' is the HTTP status.
C7_UniformEnvelope ==
    last.resp.status # 200
        => /\ last.resp.json
           /\ ~last.resp.success
           /\ last.resp.error = last.resp.status

\* C8: a POST /drinks without a JSON body, without 'title' or without
\* 'recipe' is answered with a client error and stores nothing, so every
\* stored drink has a title and a recipe.
C8_CreateValidates ==
    /\ (last.op = "POST /drinks" /\ Authorized(last)
            /\ (~last.body.json \/ ~last.body.hasTitle \/ ~last.body.hasRecipe))
        => last.resp.status \in 400..499 /\ last.own = 0
    /\ \A id \in DOMAIN store :
        store[id].title # JNull /\ json_loads(store[id].recipe) # JNull

\* C9: GET /questions?page=p returns the records at positions (p-1)*10 ..
\* p*10-1 of the full list with the total count, and 404 'resource not
\* found' exactly when that window holds no record.
C9_Pagination ==
    tlast.op = "GET /questions" =>
        LET all == Ascending(questions)
            p == tlast.page
            window == {k \in 1..Len(all) : (p - 1) * 10 < k /\ k <= p * 10}
        IN  IF window = {}
            THEN tlast.status = 404 /\ tlast.message = "resource not found"
            ELSE /\ tlast.status = 200
                 /\ Len(tlast.questions) = Cardinality(window)
                 /\ \A k \in window : tlast.questions[k - (p - 1) * 10] = all[k]
                 /\ tlast.total = Cardinality(questions)

C9_Witness ==
    /\ tlast.op = "GET /questions"
    /\ tlast.page = 2
    /\ tlast.status = 200
    /\ Cardinality(questions) = 12
    /\ Len(tlast.questions) = 2

\* C10: GET /drinks needs no credential and changes nothing; it lists, in
\* ascending id order, the short projection of exactly the drinks created by
\* a successful POST and not deleted since, and answers 404 when there is
\* none.
C10_PublicListing ==
    [][ last'.op = "GET /drinks"
            => LET r == last'.resp IN
               /\ store' = store
               /\ live' = live
               /\ IF live = {}
                  THEN r.status = 404 /\ ~r.success
                  ELSE /\ r.status = 200 /\ r.success
                       /\ {r.drinks[k].id : k \in 1..Len(r.drinks)} = live
                       /\ \A j, k \in 1..Len(r.drinks) :
                            j < k => r.drinks[j].id < r.drinks[k].id
                       /\ \A k \in 1..Len(r.drinks) :
                            LET d == r.drinks[k]
                                full == json_loads(store[d.id].recipe)
                            IN  /\ d.title = store[d.id].title
                                /\ d.recipe.t = full.t
                                /\ Len(d.recipe.l) = Len(full.l)
                                /\ \A n \in 1..Len(full.l) :
                                    d.recipe.l[n] = [color |-> full.l[n].color,
                                                     name |-> full.l[n].name] ]_vars

C10_Witness ==
    /\ last.op = "GET /drinks"
    /\ last.hdr = NoHeader
    /\ last.resp.status = 200
    /\ Len(last.resp.drinks) = 2
    /\ last.resp.drinks[2].recipe = JList(<<ShortIngredient(Espresso), ShortIngredient(Milk)>>)

====
